---- MODULE Spec2Model ----
(***************************************************************************)
(* More-Jpeg: the upload handler (POST /upload), the image handler        *)
(* (GET /images/:name), the bitcrush transform and the shared image map   *)
(* behind an async RwLock, as written in src/src/main.rs.                 *)
(*                                                                         *)
(* Byte strings are sequences of integers, text is a sequence of          *)
(* one-character strings (with the literal prefix "/images/" and the      *)
(* extension "jpg" kept as single atoms).  A decoded image is a record    *)
(* of its dimensions, its orientation, its hue angle and the number of    *)
(* lossy JPEG passes its pixels went through.                             *)
(***************************************************************************)
EXTENDS Integers, Sequences, FiniteSets, TLC

\* ------------------------------------------------------------------ bounds
NumUploads == 2
NumRetrieves == 2
MaxUlid == 1
UlidLen == 1
MaxDim == 3

\* ------------------------------------------------------- program constants
JPEG_QUALITY == 25

Uploads == 1..NumUploads
Retrievers == 1..NumRetrieves
Ulids == 0..MaxUlid

Ok(v) == [ok |-> TRUE, val |-> v]
Err(e) == [ok |-> FALSE, err |-> e]

\* ----------------------------------------------------------------- images
\* rng.gen_range(lo..hi): the half-open integer range
GenRange(lo, hi) == {x \in lo..(hi - 1) : TRUE}

Pixels(w, h, rot, hue, gen) == [w |-> w, h |-> h, rot |-> rot, hue |-> hue, gen |-> gen]

Dimensions(img) == <<img.w, img.h>>

ResizeExact(img, nw, nh) == [img EXCEPT !.w = nw, !.h = nh]

Rotate180(img) == [img EXCEPT !.rot = (img.rot + 180) % 360]

Huerotate(img, deg) == [img EXCEPT !.hue = (img.hue + deg) % 360]

\* A PNG upload as bytes: signature 137 80, then the header's width and height.
Png(w, h) == <<137, 80, w, h>>

\* JpegEncoder::new_with_quality(..).encode_image: SOI, the frame header
\* (16-bit width and height), the scan, EOI.  The frame header cannot hold a
\* dimension above 65535.
JpegEncode(img, quality) ==
    IF img.w > 65535 \/ img.h > 65535 \/ quality < 1 \/ quality > 100
    THEN Err("encode")
    ELSE Ok(<<255, 216, img.w, img.h, img.rot \div 180, img.hue \div 180, img.gen + 1, 255, 217>>)

\* JPEG decoding: a frame header with a zero width or height is rejected.
JpegDecode(bytes) ==
    IF Len(bytes) # 9 \/ bytes[3] = 0 \/ bytes[4] = 0
    THEN Err("decode")
    ELSE Ok(Pixels(bytes[3], bytes[4], bytes[5] * 180, bytes[6] * 180, bytes[7]))

PngDecode(bytes) ==
    IF Len(bytes) # 4 \/ bytes[3] = 0 \/ bytes[4] = 0
    THEN Err("decode")
    ELSE Ok(Pixels(bytes[3], bytes[4], 0, 0, 0))

IsJpeg(bytes) == Len(bytes) >= 2 /\ bytes[1] = 255 /\ bytes[2] = 216

IsPng(bytes) == Len(bytes) >= 2 /\ bytes[1] = 137 /\ bytes[2] = 80

\* image::load_from_memory_with_format(.., ImageFormat::Jpeg)
LoadFromMemoryWithFormatJpeg(bytes) ==
    IF IsJpeg(bytes) THEN JpegDecode(bytes) ELSE Err("decode")

\* image::load_from_memory: the format is guessed from the signature
LoadFromMemory(bytes) ==
    IF IsJpeg(bytes) THEN JpegDecode(bytes)
    ELSE IF IsPng(bytes) THEN PngDecode(bytes)
    ELSE Err("decode")

\* One pass of the loop of bitcrush: resize to the intermediate size, rotate,
\* hue-rotate, encode at the drawn quality, decode, resize back.
BitcrushPass(current, orig_w, orig_h, temp_w, temp_h, quality) ==
    LET shrunk == Huerotate(Rotate180(ResizeExact(current, temp_w, temp_h)), 180)
        out == JpegEncode(shrunk, quality)
    IN  IF ~out.ok THEN out
        ELSE LET back == LoadFromMemoryWithFormatJpeg(out.val)
             IN  IF ~back.ok THEN back
                 ELSE Ok(ResizeExact(back.val, orig_w, orig_h))


\* The state of bitcrush after lines 88-97: the original dimensions, the one
\* pair of intermediate dimensions, the current image, the loop counter.
BitcrushBegin(img, temp_w, temp_h) ==
    [kind |-> "crush", current |-> img, orig_w |-> Dimensions(img)[1],
     orig_h |-> Dimensions(img)[2], temp_w |-> temp_w, temp_h |-> temp_h, i |-> 0]

\* The draws of lines 92-95 for an image
TempWidths(img) == GenRange(img.w \div 2, img.w * 2)

TempHeights(img) == GenRange(img.h \div 2, img.h * 2)

\* The draw of line 107
Qualities == GenRange(10, 30)

\* One iteration of `for _ in 0..2`: Err when the pass fails (the `?` of lines
\* 109 and 111), else the loop state with the counter advanced.
BitcrushStep(st, quality) ==
    LET r == BitcrushPass(st.current, st.orig_w, st.orig_h, st.temp_w, st.temp_h, quality)
    IN  IF r.ok THEN Ok([st EXCEPT !.current = r.val, !.i = st.i + 1]) ELSE r

BitcrushLoopDone(st) == st.i = 2

\* ------------------------------------------------------------ identifiers
\* Crockford base 32, the alphabet of Ulid::to_string
Alphabet ==
    << "0", "1", "2", "3", "4", "5", "6", "7", "8", "9", "A", "B", "C", "D", "E", "F",
       "G", "H", "J", "K", "M", "N", "P", "Q", "R", "S", "T", "V", "W", "X", "Y", "Z" >>

RECURSIVE Digits(_, _)
Digits(v, n) ==
    IF n = 0 THEN <<>>
    ELSE Append(Digits(v \div Len(Alphabet), n - 1), Alphabet[(v % Len(Alphabet)) + 1])

\* Mutant: the text is made of the value without its lowest bit
UlidToStringShort(v) == Digits(v \div 2, UlidLen)

\* id.to_string(): fixed length, most significant digit first
UlidToString(v) == Digits(v, UlidLen)

\* format!("/images/{}.jpg", id.to_string())
FormatSrc(v) == <<"/images/">> \o UlidToString(v) \o <<".", "jpg">>

\* The route /images/:name binds `name` to the path's last segment
RouteName(path) == Tail(path)

RECURSIVE Split(_, _)
Split(s, delim) ==
    IF s = <<>> THEN << <<>> >>
    ELSE LET rest == Split(Tail(s), delim)
         IN  IF Head(s) = delim THEN << <<>> >> \o rest
             ELSE << <<Head(s)>> \o Head(rest) >> \o Tail(rest)

Rev(s) == [i \in 1..Len(s) |-> s[Len(s) + 1 - i]]

Last(s) == s[Len(s)]

\* id.split('.').rev().last().unwrap()
ParseId(name) == Last(Rev(Split(name, ".")))

\* ------------------------------------------------------------------ store
\* struct Image { mime, contents }
Image(mime, contents) == [mime |-> mime, contents |-> contents]

\* HashMap::insert: adds the key, or replaces the value of a key already there
MapInsert(images, k, v) ==
    [x \in (DOMAIN images) \cup {k} |-> IF x = k THEN v ELSE images[x]]

\* HashMap::get
MapGet(images, k) == IF k \in DOMAIN images THEN Ok(images[k]) ELSE Err("absent")

\* -------------------------------------------------------------- responses
Response(status, ctype, body) == [status |-> status, ctype |-> ctype, body |-> body]

NoResponse == Response(0, "", <<>>)

\* The error branch of for_tide, and tide's conversion of a handler's `?`
InternalError == Response(500, "", <<>>)

ForTide(result) == IF result.ok THEN result.val ELSE InternalError

\* tide::Body::from_json(&UploadResponse { src }): the object {"src": src}
ToJson(src) == <<"{", "src", ":">> \o src \o <<"}">>

\* What a client reads back out of the upload response
SrcOfJson(body) == SubSeq(body, 4, Len(body) - 1)

\* ------------------------------------------------------------------ inputs
\* Request bodies: two bytes of text, a 1x1 PNG and a 2x1 PNG
UploadBodies == {<<104, 105>>, Png(1, 1), Png(2, 1)}

\* Values of the `name` parameter: the names the service hands out, the same
\* ids with no or with a longer extension, and a name that is no ULID at all
\* ("U" is not in the alphabet)
Names ==
    {RouteName(FormatSrc(v)) : v \in Ulids}
        \cup {UlidToString(v) : v \in Ulids}
        \cup {UlidToString(v) \o <<".", "tar", ".", "jpg">> : v \in Ulids}
        \cup {<<"U", ".", "jpg">>}

\* Decoded images handed to bitcrush on its own
CrushInputs == {Pixels(w, h, 0, 0, 0) : w \in 1..MaxDim, h \in 1..MaxDim}

\* ------------------------------------------------------------------- state
VARIABLES
    images,     \* State.images: the HashMap behind the RwLock
    writer,     \* the upload holding the write guard, 0 when none
    readers,    \* the retrievals holding a read guard
    upc,        \* each upload's position in the POST /upload handler
    udata,      \* each upload's local value: body, image, loop state, artifact
    ulid,       \* each upload's Ulid::new(), -1 before it is drawn
    ures,       \* each upload's response
    rpc,        \* each retrieval's position in serve_image
    rid,        \* each retrieval's parsed id
    rres,       \* each retrieval's response
    cpc,        \* bitcrush called on its own: position
    cin,        \* its argument
    cst,        \* its loop state
    cout        \* its return value

vars == <<images, writer, readers, upc, udata, ulid, ures, rpc, rid, rres, cpc, cin, cst, cout>>

storeVars == <<images, writer, readers>>
uploadVars == <<upc, udata, ulid, ures>>
retrieveVars == <<rpc, rid, rres>>
crushVars == <<cpc, cin, cst, cout>>
serverVars == <<images, writer, readers, upc, udata, ulid, ures, rpc, rid, rres>>

NoData == [kind |-> "none"]
NoImage == Pixels(0, 0, 0, 0, 0)
EmptyMap == [k \in {} |-> Image("", <<>>)]

ServerInit ==
    /\ images = EmptyMap
    /\ writer = 0
    /\ readers = {}
    /\ upc = [u \in Uploads |-> "idle"]
    /\ udata = [u \in Uploads |-> NoData]
    /\ ulid = [u \in Uploads |-> -1]
    /\ ures = [u \in Uploads |-> NoResponse]
    /\ rpc = [r \in Retrievers |-> "idle"]
    /\ rid = [r \in Retrievers |-> <<>>]
    /\ rres = [r \in Retrievers |-> NoResponse]

Init ==
    /\ ServerInit
    /\ cpc = "off"
    /\ cin = NoImage
    /\ cst = NoData
    /\ cout = Err("none")

\* ------------------------------------------------------ POST /upload
\* Mutant: a failing request leaves an empty artifact behind
UFailKeepsPartial(u) ==
    /\ upc' = [upc EXCEPT ![u] = "failed"]
    /\ udata' = [udata EXCEPT ![u] = NoData]
    /\ ures' = [ures EXCEPT ![u] = InternalError]
    /\ images' = MapInsert(images, UlidToString(0), Image("image/jpeg", <<>>))
    /\ UNCHANGED <<ulid, writer, readers>>

\* A `?` of the handler: the request ends with tide's 500
UFail(u) ==
    /\ upc' = [upc EXCEPT ![u] = "failed"]
    /\ udata' = [udata EXCEPT ![u] = NoData]
    /\ ures' = [ures EXCEPT ![u] = InternalError]
    /\ UNCHANGED <<ulid, storeVars>>

\* req.body_bytes().await? with the body read
UReceive(u) ==
    /\ upc[u] = "idle"
    /\ \E body \in UploadBodies :
          udata' = [udata EXCEPT ![u] = [kind |-> "bytes", bytes |-> body]]
    /\ upc' = [upc EXCEPT ![u] = "decode"]
    /\ UNCHANGED <<ulid, ures, storeVars, retrieveVars, crushVars>>

\* req.body_bytes().await? with the read failing
UReceiveFail(u) ==
    /\ upc[u] = "idle"
    /\ UFail(u)
    /\ UNCHANGED <<retrieveVars, crushVars>>

\* image::load_from_memory(&body[..])?
UDecode(u) ==
    /\ upc[u] = "decode"
    /\ LET r == LoadFromMemory(udata[u].bytes)
       IN  IF r.ok
           THEN /\ upc' = [upc EXCEPT ![u] = "crush"]
                /\ udata' = [udata EXCEPT ![u] = [kind |-> "image", img |-> r.val]]
                /\ UNCHANGED <<ulid, ures, storeVars>>
           ELSE UFail(u)
    /\ UNCHANGED <<retrieveVars, crushVars>>

\* Mutant: the write lock is taken before the transform
UCrushBeginLocked(u) ==
    /\ upc[u] = "crush"
    /\ writer = 0
    /\ readers = {}
    /\ writer' = u
    /\ \E temp_w \in TempWidths(udata[u].img), temp_h \in TempHeights(udata[u].img) :
          udata' = [udata EXCEPT ![u] = BitcrushBegin(udata[u].img, temp_w, temp_h)]
    /\ upc' = [upc EXCEPT ![u] = "loop"]
    /\ UNCHANGED <<images, readers, ulid, ures, retrieveVars, crushVars>>

\* .bitcrush(): the dimensions and the two draws before the loop
UCrushBegin(u) ==
    /\ upc[u] = "crush"
    /\ \E temp_w \in TempWidths(udata[u].img), temp_h \in TempHeights(udata[u].img) :
          udata' = [udata EXCEPT ![u] = BitcrushBegin(udata[u].img, temp_w, temp_h)]
    /\ upc' = [upc EXCEPT ![u] = "loop"]
    /\ UNCHANGED <<ulid, ures, storeVars, retrieveVars, crushVars>>

\* .bitcrush(): one iteration of the loop
UCrushPass(u) ==
    /\ upc[u] = "loop"
    /\ ~BitcrushLoopDone(udata[u])
    /\ \E r \in {BitcrushStep(udata[u], quality) : quality \in Qualities} :
              IF r.ok
              THEN /\ udata' = [udata EXCEPT ![u] = r.val]
                   /\ UNCHANGED <<upc, ulid, ures, storeVars>>
              ELSE UFail(u)
    /\ UNCHANGED <<retrieveVars, crushVars>>

\* bitcrush returns Ok(current); the final encoding at JPEG_QUALITY, Ulid::new(),
\* the src and the Image (lines 163-176)
UEncode(u) ==
    /\ upc[u] = "loop"
    /\ BitcrushLoopDone(udata[u])
    /\ LET r == JpegEncode(udata[u].current, JPEG_QUALITY)
       IN  IF r.ok
           THEN /\ \E id \in Ulids : ulid' = [ulid EXCEPT ![u] = id]
                /\ udata' = [udata EXCEPT ![u] =
                                [kind |-> "artifact", img |-> Image("image/jpeg", r.val)]]
                /\ upc' = [upc EXCEPT ![u] = "lock"]
                /\ UNCHANGED <<ures, storeVars>>
           ELSE UFail(u)
    /\ UNCHANGED <<retrieveVars, crushVars>>

\* rw.write().await: granted when no guard is out
UAcquireWrite(u) ==
    /\ upc[u] = "lock"
    /\ writer = 0
    /\ readers = {}
    /\ writer' = u
    /\ upc' = [upc EXCEPT ![u] = "held"]
    /\ UNCHANGED <<images, readers, udata, ulid, ures, retrieveVars, crushVars>>

\* Mutant: the guard is dropped with nothing inserted
UReleaseWithoutInsert(u) ==
    /\ upc[u] = "held"
    /\ writer' = 0
    /\ udata' = [udata EXCEPT ![u] = NoData]
    /\ upc' = [upc EXCEPT ![u] = "respond"]
    /\ UNCHANGED <<images, readers, ulid, ures, retrieveVars, crushVars>>

\* Mutant: the insert is made and the guard is never dropped
UInsertKeepGuard(u) ==
    /\ upc[u] = "held"
    /\ images' = MapInsert(images, UlidToString(ulid[u]), udata[u].img)
    /\ udata' = [udata EXCEPT ![u] = NoData]
    /\ upc' = [upc EXCEPT ![u] = "respond"]
    /\ UNCHANGED <<writer, readers, ulid, ures, retrieveVars, crushVars>>

\* images.insert(id.to_string(), img); the guard is dropped at the block's end
UInsertRelease(u) ==
    /\ upc[u] = "held"
    /\ images' = MapInsert(images, UlidToString(ulid[u]), udata[u].img)
    /\ writer' = 0
    /\ udata' = [udata EXCEPT ![u] = NoData]
    /\ upc' = [upc EXCEPT ![u] = "respond"]
    /\ UNCHANGED <<readers, ulid, ures, retrieveVars, crushVars>>

\* The response of lines 184-187.  Body::from_json serialises a struct of one
\* string into a byte vector, which has no failing case.
URespond(u) ==
    /\ upc[u] = "respond"
    /\ ures' = [ures EXCEPT ![u] = Response(200, "application/json", ToJson(FormatSrc(ulid[u])))]
    /\ upc' = [upc EXCEPT ![u] = "ok"]
    /\ UNCHANGED <<udata, ulid, storeVars, retrieveVars, crushVars>>

UNext(u) ==
    \/ UReceive(u)
    \/ UReceiveFail(u)
    \/ UDecode(u)
    \/ UCrushBegin(u)
    \/ UCrushPass(u)
    \/ UEncode(u)
    \/ UAcquireWrite(u)
    \/ UInsertRelease(u)
    \/ URespond(u)

\* ------------------------------------------------- GET /images/:name
\* Lines 228-230: the parameter (the route always binds it) and the id
RStart(r) ==
    /\ rpc[r] = "idle"
    /\ \E name \in Names : rid' = [rid EXCEPT ![r] = ParseId(name)]
    /\ rpc' = [rpc EXCEPT ![r] = "wait"]
    /\ UNCHANGED <<rres, storeVars, uploadVars, crushVars>>

\* Mutant: the read guard is granted whatever the lock's state
RAcquireReadAnyTime(r) ==
    /\ rpc[r] = "wait"
    /\ readers' = readers \cup {r}
    /\ rpc' = [rpc EXCEPT ![r] = "held"]
    /\ UNCHANGED <<images, writer, rid, rres, uploadVars, crushVars>>

\* rw.read().await: granted when no write guard is out
RAcquireRead(r) ==
    /\ rpc[r] = "wait"
    /\ writer = 0
    /\ readers' = readers \cup {r}
    /\ rpc' = [rpc EXCEPT ![r] = "held"]
    /\ UNCHANGED <<images, writer, rid, rres, uploadVars, crushVars>>

\* Mutant: an absent id is an error of the handler
ServeFoundOrError(map, id) ==
    LET got == MapGet(map, id)
    IN  IF got.ok
        THEN Ok(Response(200, got.val.mime, got.val.contents))
        ELSE Err("InvalidId")

\* Lines 232-240
ServeFound(map, id) ==
    LET got == MapGet(map, id)
    IN  IF got.ok
        THEN Ok(Response(200, got.val.mime, got.val.contents))
        ELSE Ok(Response(404, "", <<>>))

\* Mutant: the entry served is taken out of the map
RLookupTakes(r) ==
    /\ rpc[r] = "held"
    /\ rres' = [rres EXCEPT ![r] = ForTide(ServeFound(images, rid[r]))]
    /\ images' = [k \in (DOMAIN images) \ {rid[r]} |-> images[k]]
    /\ readers' = readers \ {r}
    /\ rpc' = [rpc EXCEPT ![r] = "done"]
    /\ UNCHANGED <<writer, rid, uploadVars, crushVars>>

\* images.get(id), the response, the read guard dropped on return, for_tide
RLookupRelease(r) ==
    /\ rpc[r] = "held"
    /\ rres' = [rres EXCEPT ![r] = ForTide(ServeFound(images, rid[r]))]
    /\ readers' = readers \ {r}
    /\ rpc' = [rpc EXCEPT ![r] = "done"]
    /\ UNCHANGED <<images, writer, rid, uploadVars, crushVars>>

RNext(r) ==
    \/ RStart(r)
    \/ RAcquireRead(r)
    \/ RLookupRelease(r)

Next ==
    \/ \E u \in Uploads : UNext(u)
    \/ \E r \in Retrievers : RNext(r)

Spec == Init /\ [][Next]_vars

\* Every request is a task of the executor: a task that can take the lock it
\* awaits, or that holds a guard, is polled and runs on
FairSpec ==
    /\ Spec
    /\ \A u \in Uploads : WF_vars(UAcquireWrite(u)) /\ WF_vars(UInsertRelease(u))
    /\ \A r \in Retrievers : WF_vars(RAcquireRead(r)) /\ WF_vars(RLookupRelease(r))

\* ------------------------------------------------- bitcrush on its own
CrushInit ==
    /\ ServerInit
    /\ cpc = "call"
    /\ cin \in CrushInputs
    /\ cst = NoData
    /\ cout = Err("none")

CBegin ==
    /\ cpc = "call"
    /\ \E temp_w \in TempWidths(cin), temp_h \in TempHeights(cin) :
          cst' = BitcrushBegin(cin, temp_w, temp_h)
    /\ cpc' = "loop"
    /\ UNCHANGED <<cin, cout, serverVars>>

CPass ==
    /\ cpc = "loop"
    /\ ~BitcrushLoopDone(cst)
    /\ \E r \in {BitcrushStep(cst, quality) : quality \in Qualities} :
              IF r.ok
              THEN /\ cst' = r.val
                   /\ UNCHANGED <<cpc, cout>>
              ELSE /\ cout' = r
                   /\ cpc' = "returned"
                   /\ cst' = NoData
    /\ UNCHANGED <<cin, serverVars>>

CReturn ==
    /\ cpc = "loop"
    /\ BitcrushLoopDone(cst)
    /\ cout' = Ok(cst.current)
    /\ cpc' = "returned"
    /\ cst' = NoData
    /\ UNCHANGED <<cin, serverVars>>

CrushNext == CBegin \/ CPass \/ CReturn

CrushSpec == CrushInit /\ [][CrushNext]_vars

\* ------------------------------------------------------------ properties
\* What a client holding an upload's response requests: the id in its src
IdOfResponse(res) == ParseId(RouteName(SrcOfJson(res.body)))

ReturnedIds == {IdOfResponse(ures[u]) : u \in {x \in Uploads : ures[x].status = 200}}

\* The uploads whose insert is done; each goes on to its 200 response
Inserted == {u \in Uploads : upc[u] \in {"respond", "ok"}}

InsertedIds == {UlidToString(ulid[u]) : u \in Inserted}

AllUploadsEnded == \A u \in Uploads : upc[u] \in {"ok", "failed"}

\* Ulid::from_string would accept the text
WellFormedId(id) ==
    /\ Len(id) = UlidLen
    /\ \A i \in 1..Len(id) : \E j \in 1..Len(Alphabet) : Alphabet[j] = id[i]

\* C1: bitcrush, called on any decodable W x H image (W, H >= 1) with any of
\* its random draws, returns Ok with an image of exactly W x H.
C1_BitcrushKeepsDimensions ==
    cpc = "returned" => (cout.ok /\ Dimensions(cout.val) = Dimensions(cin))

\* C2: an upload's entry is in the map before its 200 response exists, and
\* every lookup made once a submit has returned id X finds X and answers 200
\* with content type image/jpeg and a non-empty body.
C2_RetrieveAfterSubmit ==
    [][ /\ \A u \in Uploads :
             ures'[u].status = 200 => IdOfResponse(ures'[u]) \in DOMAIN images'
        /\ \A r \in Retrievers :
             (rpc[r] = "held" /\ rpc'[r] = "done" /\ rid[r] \in ReturnedIds)
                 => /\ rres'[r].status = 200
                    /\ rres'[r].ctype = "image/jpeg"
                    /\ Len(rres'[r].body) > 0 ]_vars

C2_Witness ==
    \E r \in Retrievers :
        /\ rpc[r] = "done"
        /\ rid[r] \in ReturnedIds
        /\ rres[r].status = 200
        /\ IsJpeg(rres[r].body)

C4_ReaderWriterExclusion ==
    LET inserts == {u \in Uploads : upc[u] = "held"}
        lookups == {r \in Retrievers : rpc[r] = "held"}
    IN  /\ Cardinality(inserts) <= 1
        /\ inserts # {} => lookups = {}
        /\ writer # 0 => readers = {}

C4_Witness ==
    /\ \E u \in Uploads : upc[u] = "held"
    /\ \E v \in Uploads : upc[v] = "lock"
    /\ \E r \in Retrievers : rpc[r] = "wait"

\* Two lookups inside their critical sections at once
C4_TwoReaders == Cardinality({r \in Retrievers : rpc[r] = "held"}) >= 2

\* C5 as stated: no step removes an entry or changes an entry's value.
C5_AppendOnly ==
    [][\A k \in DOMAIN images : k \in DOMAIN images' /\ images'[k] = images[k]]_vars

\* C5 amended: no step removes an entry, a retrieval changes nothing, and an
\* entry's value changes only in the insert of an upload that drew the same
\* id, which replaces it by that upload's image/jpeg artifact.
C5_AppendOrOverwrite ==
    [][ /\ \A k \in DOMAIN images : k \in DOMAIN images'
        /\ (\E r \in Retrievers : rpc'[r] # rpc[r]) => images' = images
        /\ \A k \in DOMAIN images :
             images'[k] # images[k] =>
                \E u \in Uploads :
                    /\ upc[u] = "held" /\ upc'[u] = "respond"
                    /\ UlidToString(ulid[u]) = k
                    /\ images'[k] = udata[u].img
                    /\ images'[k].mime = "image/jpeg" ]_vars

C5_Witness ==
    \E u, v \in Inserted :
        /\ u # v
        /\ ulid[u] = ulid[v]
        /\ UlidToString(ulid[u]) \in DOMAIN images
        /\ \E r \in Retrievers : rpc[r] = "done" /\ rres[r].status = 200

C7_InvalidIdDistinct ==
    \A r \in Retrievers :
        (rpc[r] = "done" /\ ~WellFormedId(rid[r])) =>
            /\ rres[r].status # 404
            /\ rres[r] # ForTide(Err("InvalidId"))
            /\ rres[r].status # 200
            /\ ForTide(Err("InvalidId")) # ForTide(Err("decode"))

\* C8: whenever a request awaits the lock, some request can take the lock or
\* drop its guard (no deadlock), and under fair scheduling every request
\* awaiting the read or the write lock gets it.
NoDeadlock ==
    ((\E u \in Uploads : upc[u] = "lock") \/ (\E r \in Retrievers : rpc[r] = "wait"))
        => \/ \E u \in Uploads : ENABLED UAcquireWrite(u) \/ ENABLED UInsertRelease(u)
           \/ \E r \in Retrievers : ENABLED RAcquireRead(r) \/ ENABLED RLookupRelease(r)

C9_DistinctIds ==
    \A u, v \in Uploads :
        (u # v /\ upc[u] = "ok" /\ upc[v] = "ok")
            => SrcOfJson(ures[u].body) # SrcOfJson(ures[v].body)

\* C9 amended: two successful submits return the same reference exactly when
\* Ulid::new() gave them the same value, and every returned id is a key.
C9_DistinctUnlessSameUlid ==
    /\ \A u, v \in Uploads :
          (u # v /\ upc[u] = "ok" /\ upc[v] = "ok")
              => ((SrcOfJson(ures[u].body) = SrcOfJson(ures[v].body)) <=> (ulid[u] = ulid[v]))
    /\ \A u \in Uploads : upc[u] = "ok" => IdOfResponse(ures[u]) \in DOMAIN images

C9_Witness ==
    \E u, v \in Uploads :
        /\ upc[u] = "ok" /\ upc[v] = "ok"
        /\ ulid[u] # ulid[v]
        /\ {IdOfResponse(ures[u]), IdOfResponse(ures[v])} \subseteq DOMAIN images
        /\ Cardinality(DOMAIN images) = 2

====
